---- MODULE Spec2Model ----
(***************************************************************************)
(* UPSC & PCS Question Generator: the retrying question generator of       *)
(* utils.py (QuestionGenerator) and the quiz session of main.py            *)
(* (QuizManager and the Streamlit script main()).                          *)
(*                                                                         *)
(* A Python str is modelled as a sequence of one-character strings, so     *)
(* that `in`, replace, strip and lower are computed character by character.*)
(***************************************************************************)
EXTENDS Integers, Sequences, FiniteSets, TLC

VARIABLES
    questions,       \* QuizManager.questions
    user_answers,    \* QuizManager.user_answers
    results,         \* QuizManager.results
    quiz_generated,  \* st.session_state.quiz_generated
    quiz_submitted,  \* st.session_state.quiz_submitted
    widget,          \* current value of the answer widget of each rendered question
    pc,              \* position of the script: "idle" | "generating" | "rerun"; when the
                     \* manager is driven directly, the method that ran last
    gen,             \* arguments and loop counter of the running generate_questions
    call,            \* frame of the running generate_mcq / generate_fill_blank
    ret,             \* outcome of the last finished generate_mcq / generate_fill_blank
    prev,            \* manager and session state when the last operation started
    interactions,    \* user-triggered script runs on the rendered quiz so far
    io               \* files under results/ and the outcome of the last save_to_csv

vars == <<questions, user_answers, results, quiz_generated, quiz_submitted,
          widget, pc, gen, call, ret, prev, interactions, io>>

-----------------------------------------------------------------------------
(* Bounds of the model *)

MaxQuestionLen == 7   \* longest fill-in-the-blank question text the LLM emits
MaxOptions == 5       \* longest options list the LLM emits
MaxQuestions == 2     \* largest num_questions requested
MaxInteractions == 2  \* user-triggered script runs on one rendered quiz
MaxAnswers == 4       \* longest user_answers list when the manager is driven directly

-----------------------------------------------------------------------------
(* Python str and list primitives *)

Range(s) == {s[i] : i \in 1..Len(s)}

Min(a, b) == IF a <= b THEN a ELSE b

StrUpTo(S, n) == UNION {[1..k -> S] : k \in 0..n}

\* `sub in s`
Contains(s, sub) ==
    \E i \in 1..(Len(s) - Len(sub) + 1) : SubSeq(s, i, i + Len(sub) - 1) = sub

\* s.replace(old, new) with count = 1: only the leftmost occurrence
RECURSIVE ReplaceFirst(_, _, _)
ReplaceFirst(s, old, new) ==
    IF Len(s) < Len(old) THEN s
    ELSE IF SubSeq(s, 1, Len(old)) = old
         THEN new \o SubSeq(s, Len(old) + 1, Len(s))
         ELSE <<Head(s)>> \o ReplaceFirst(Tail(s), old, new)

\* s.replace(old, new): every non-overlapping occurrence, scanning left to right
RECURSIVE Replace(_, _, _)
Replace(s, old, new) ==
    IF Len(s) < Len(old) THEN s
    ELSE IF SubSeq(s, 1, Len(old)) = old
         THEN new \o Replace(SubSeq(s, Len(old) + 1, Len(s)), old, new)
         ELSE <<Head(s)>> \o Replace(Tail(s), old, new)

IsSpace(c) == c \in {" ", "\t", "\n"}

RECURSIVE LStrip(_)
LStrip(s) == IF s # <<>> /\ IsSpace(Head(s)) THEN LStrip(Tail(s)) ELSE s

RECURSIVE RStrip(_)
RStrip(s) ==
    IF s # <<>> /\ IsSpace(s[Len(s)]) THEN RStrip(SubSeq(s, 1, Len(s) - 1)) ELSE s

\* s.strip()
Strip(s) == RStrip(LStrip(s))

LowerChar(c) ==
    CASE c = "A" -> "a"
      [] c = "B" -> "b"
      [] c = "C" -> "c"
      [] c = "D" -> "d"
      [] c = "P" -> "p"
      [] c = "S" -> "s"
      [] OTHER -> c

\* s.lower()
Lower(s) == [i \in 1..Len(s) |-> LowerChar(s[i])]

-----------------------------------------------------------------------------
(* utils.py: the question models and their parsers *)

BlankMarker == <<"_", "_", "_", "_", "_">>
WeakMarker == <<"_", "_", "_">>

\* str(v) of a dict: its repr, never empty
DictRepr == <<"{", "}">>

\* @validator('question', pre=True): a raw question field is a JSON string, or
\* a JSON object with or without a 'description' key
clean_question(v) ==
    IF v.form = "dict"
    THEN IF v.has_description THEN v.text ELSE DictRepr
    ELSE v.text

\* mcq_parser.parse(response.content) on a well-formed JSON object
ParseMCQ(out) ==
    [question |-> clean_question(out.question),
     options |-> out.options,
     correct_answer |-> out.correct_answer]

\* fill_blank_parser.parse(response.content) on a well-formed JSON object
ParseFillBlank(out) ==
    [question |-> clean_question(out.question), answer |-> out.answer]

max_attempts == 3

Ok(v) == [ok |-> TRUE, value |-> v, error |-> "none"]
Raise(e) == [ok |-> FALSE, value |-> <<>>, error |-> e]

\* A validator that also rejects a repeated option
MCQFormatInvalid_Unique(p) ==
    \/ p.question = <<>> \/ Len(p.options) # 4 \/ p.correct_answer = <<>>
    \/ \E i, j \in 1..Len(p.options) : i # j /\ p.options[i] = p.options[j]

\* The first validation of generate_mcq, which raises "Invalid question format"
MCQFormatInvalid(p) ==
    p.question = <<>> \/ Len(p.options) # 4 \/ p.correct_answer = <<>>

\* A validator that forgets the membership check
MCQAnswerMissing_Skipped(p) == FALSE

\* A validator that looks for the correct answer in the first option only
MCQAnswerMissing_FirstOnly(p) == p.correct_answer # p.options[1]

\* The second validation of generate_mcq, which raises "Correct answer not in options"
MCQAnswerMissing(p) == p.correct_answer \notin Range(p.options)

\* The body of the try block of generate_mcq on one LLM output
TryMCQ(out) ==
    IF out.kind = "transport_error" THEN Raise("transport")
    ELSE IF out.kind = "unparseable" THEN Raise("parse")
    ELSE LET p == ParseMCQ(out) IN
         IF MCQFormatInvalid(p) THEN Raise("Invalid question format")
         ELSE IF MCQAnswerMissing(p) THEN Raise("Correct answer not in options")
         ELSE Ok(p)

\* The first validation of generate_fill_blank
FillBlankFormatInvalid(p) == p.question = <<>> \/ p.answer = <<>>

\* The marker repair of generate_fill_blank
NormalizeBlank(q) ==
    IF ~Contains(q, BlankMarker) THEN Replace(q, WeakMarker, BlankMarker) ELSE q

\* A validator that forgets the check after the repair
MarkerMissing_Skipped(q) == FALSE

\* The check after the repair, which raises "Question missing blank marker"
MarkerMissing(q) == ~Contains(q, BlankMarker)

\* The body of the try block of generate_fill_blank on one LLM output
TryFillBlank(out) ==
    IF out.kind = "transport_error" THEN Raise("transport")
    ELSE IF out.kind = "unparseable" THEN Raise("parse")
    ELSE LET p == ParseFillBlank(out) IN
         IF FillBlankFormatInvalid(p) THEN Raise("Invalid question format")
         ELSE LET q == NormalizeBlank(p.question) IN
              IF MarkerMissing(q) THEN Raise("Question missing blank marker '_____'")
              ELSE Ok([question |-> q, answer |-> p.answer])

TryBody(question_type, out) ==
    IF question_type = "Multiple Choice" THEN TryMCQ(out) ELSE TryFillBlank(out)

\* A retry loop that gives up one attempt early
IsFinalAttempt_OneEarly(attempt) == attempt = max_attempts - 2

\* An except clause that gives up one attempt too late
IsFinalAttempt_OneLate(attempt) == attempt = max_attempts

\* `attempt == max_attempts - 1` in the except clause
IsFinalAttempt(attempt) == attempt = max_attempts - 1

\* How the messages name the two kinds of question
KindName(question_type) ==
    IF question_type = "Multiple Choice" THEN "MCQ" ELSE "fill-in-the-blank question"

\* A terminal error that drops the cause of the last failure
TerminalError_NoCause(question_type, cause) ==
    <<"Failed to generate valid ", KindName(question_type), " after ",
      ToString(max_attempts), " attempts">>

\* The RuntimeError of the final attempt: the f-string "Failed to generate valid
\* <kind> after {max_attempts} attempts: {str(e)}", as the sequence of its parts
TerminalError(question_type, cause) ==
    <<"Failed to generate valid ", KindName(question_type), " after ",
      ToString(max_attempts), " attempts: ", cause>>


-----------------------------------------------------------------------------
(* What the LLM may answer to one prompt *)

TransportError == [kind |-> "transport_error"]
Unparseable == [kind |-> "unparseable"]

RawQuestions(texts) ==
    {[form |-> "str", has_description |-> FALSE, text |-> t] : t \in texts}
    \cup {[form |-> "dict", has_description |-> TRUE, text |-> t] : t \in texts}
    \cup {[form |-> "dict", has_description |-> FALSE, text |-> <<>>]}

PlainQuestion(t) == [form |-> "str", has_description |-> FALSE, text |-> t]

OptionStrings == {<<>>, <<"A">>, <<"B">>, <<"C">>}

\* Every MCQ-shaped JSON object over a small vocabulary
MCQOutputs ==
    [kind : {"json"},
     question : RawQuestions({<<>>, <<"a">>}),
     options : UNION {[1..k -> OptionStrings] : k \in 3..MaxOptions},
     correct_answer : OptionStrings \cup {<<"D">>}]

\* Every fill-in-the-blank-shaped JSON object over a small vocabulary
FillBlankOutputs ==
    [kind : {"json"},
     question : RawQuestions(StrUpTo({"_", "a"}, MaxQuestionLen)),
     answer : {<<>>, <<"a">>}]

LLMOutputs(question_type) ==
    {TransportError, Unparseable}
    \cup (IF question_type = "Multiple Choice" THEN MCQOutputs ELSE FillBlankOutputs)

\* A handful of answers, enough to drive a whole quiz session
SessionMCQOutputs ==
    {[kind |-> "json", question |-> PlainQuestion(<<"a">>),
      options |-> <<<<"A">>, <<"B">>, <<"C">>, <<"D">>>>, correct_answer |-> <<"B">>],
     [kind |-> "json", question |-> PlainQuestion(<<"b">>),
      options |-> <<<<"a">>, <<"A">>, <<"A", " ">>, <<"B">>>>, correct_answer |-> <<"A">>],
     [kind |-> "json", question |-> PlainQuestion(<<"a">>),
      options |-> <<<<"A">>, <<"B">>, <<"C">>>>, correct_answer |-> <<"A">>]}

SessionFillBlankOutputs ==
    {[kind |-> "json", question |-> PlainQuestion(<<"a", "_", "_", "_", "_", "_">>),
      answer |-> <<"P">>],
     [kind |-> "json", question |-> PlainQuestion(<<"_", "_", "_">>),
      answer |-> <<" ", "p">>],
     [kind |-> "json", question |-> PlainQuestion(<<"a">>), answer |-> <<"P">>]}

SessionOutputs(question_type) ==
    {TransportError, Unparseable}
    \cup (IF question_type = "Multiple Choice"
          THEN SessionMCQOutputs ELSE SessionFillBlankOutputs)

\* What the user may type into a text input
TextInputs == {<<>>, <<"p">>, <<" ", "P", " ">>, <<"P", "s">>}

QuestionTypes == {"Multiple Choice", "Fill in the Blank"}

\* What the user may type into the topic field
Topics == {"Geography", "Indian History"}

\* The topic of the quiz session
SessionTopics == {"Indian History"}

\* What datetime.now().strftime("%Y%m%d_%H%M%S") may give
Timestamps == {"20261105_120000"}

-----------------------------------------------------------------------------
(* main.py: QuizManager *)

\* The dict that generate_questions appends for a generated question
QuizItem(question_type, q) ==
    IF question_type = "Multiple Choice"
    THEN [type |-> "MCQ", question |-> q.question, options |-> q.options,
          correct_answer |-> q.correct_answer]
    ELSE [type |-> "Fill in the Blank", question |-> q.question,
          correct_answer |-> q.answer]

\* A reset that forgets the results list
ResetManager_KeepResults ==
    [questions |-> <<>>, user_answers |-> <<>>, results |-> results]

\* The three lists as generate_questions resets them
ResetManager == [questions |-> <<>>, user_answers |-> <<>>, results |-> <<>>]

\* attempt_quiz: one widget value appended per question
attempt_quiz(answers, values) == answers \o values

\* A comparison that forgets to strip the fill-in-the-blank answers
IsCorrect_NoStrip(q, user_ans) ==
    IF q.type = "MCQ"
    THEN user_ans = q.correct_answer
    ELSE Lower(user_ans) = Lower(q.correct_answer)

\* The comparison of evaluate_quiz
IsCorrect(q, user_ans) ==
    IF q.type = "MCQ"
    THEN user_ans = q.correct_answer
    ELSE Lower(Strip(user_ans)) = Lower(Strip(q.correct_answer))

ResultDict(i, q, user_ans) ==
    [question_number |-> i,
     question |-> q.question,
     question_type |-> q.type,
     user_answer |-> user_ans,
     correct_answer |-> q.correct_answer,
     is_correct |-> IsCorrect(q, user_ans),
     options |-> IF q.type = "MCQ" THEN q.options ELSE <<>>]

\* An evaluation that pads the shorter list, as itertools.zip_longest would
evaluate_quiz_ZipLongest(qs, answers) ==
    [i \in 1..Len(qs) |->
        ResultDict(i, qs[i], IF i <= Len(answers) THEN answers[i] ELSE <<>>)]

\* evaluate_quiz: results rebuilt from zip(questions, user_answers)
evaluate_quiz(qs, answers) ==
    [i \in 1..Min(Len(qs), Len(answers)) |-> ResultDict(i, qs[i], answers[i])]

\* The score main() shows for the results: correct_count / total_questions
Score(res) ==
    [correct_count |-> Cardinality({i \in 1..Len(res) : res[i].is_correct}),
     total_questions |-> Len(res)]

\* A save that does not look at the results list first
save_to_csv_NoCheck(res, ts, write_ok) ==
    IF write_ok
    THEN [returned |-> ts, message |-> "success", wrote |-> TRUE]
    ELSE [returned |-> "None", message |-> "error", wrote |-> FALSE]

\* save_to_csv on the results `res`, the clock reading `ts`, the write
\* succeeding or raising: what it returns, the message it shows, whether it
\* wrote results/quiz_results_<ts>.csv
save_to_csv(res, ts, write_ok) ==
    IF res = <<>>
    THEN [returned |-> "None", message |-> "warning", wrote |-> FALSE]
    ELSE IF write_ok
    THEN [returned |-> ts, message |-> "success", wrote |-> TRUE]
    ELSE [returned |-> "None", message |-> "error", wrote |-> FALSE]

\* The files and the outcome after one save_to_csv
Saved(res, ts, write_ok) ==
    LET r == save_to_csv(res, ts, write_ok)
    IN [files |-> IF r.wrote THEN io.files \cup {ts} ELSE io.files,
        returned |-> r.returned, message |-> r.message, wrote |-> r.wrote]

-----------------------------------------------------------------------------
(* main.py: the widgets and the script *)

\* st.radio without index starts on the first option; st.text_input starts empty
WidgetDefault(q) == IF q.type = "MCQ" THEN q.options[1] ELSE <<>>

\* The values the widget of question q can return
WidgetChoices(q) == IF q.type = "MCQ" THEN Range(q.options) ELSE TextInputs

\* A display condition that forgets the quiz_generated flag
QuizShown_IgnoringFlag == questions # <<>>

\* `if st.session_state.quiz_generated and st.session_state.quiz_manager.questions`
QuizShown == quiz_generated /\ questions # <<>>

\* The quiz section of one script run, the widgets holding `values`
RenderQuiz(values) ==
    IF QuizShown THEN attempt_quiz(user_answers, values) ELSE user_answers

NoCall == [attempt |-> 0, invocations |-> 0, verdicts |-> <<>>]
NoError == <<>>
NoReturn == [status |-> "none", value |-> <<>>, invocations |-> 0,
             verdicts |-> <<>>, out |-> [kind |-> "none"], error |-> NoError]
NoGen == [question_type |-> "none", topic |-> "none", num_questions |-> 0, i |-> 0,
          calls |-> 0, invocations |-> 0, returned |-> <<>>]
NoIO == [files |-> {}, returned |-> "none", message |-> "none", wrote |-> FALSE]

\* The files as they are, no save_to_csv outcome: the operation or script run
\* under way has not saved
NoSave == [NoIO EXCEPT !.files = io.files]

\* The manager and session state an operation finds (of user_answers, how many)
Snapshot ==
    [questions |-> questions, results |-> results,
     quiz_submitted |-> quiz_submitted, answers |-> Len(user_answers)]
NoPrev == [questions |-> <<>>, results |-> <<>>, quiz_submitted |-> FALSE,
           answers |-> 0]

Init ==
    /\ questions = <<>>
    /\ user_answers = <<>>
    /\ results = <<>>
    /\ quiz_generated = FALSE
    /\ quiz_submitted = FALSE
    /\ widget = <<>>
    /\ pc = "idle"
    /\ gen = NoGen
    /\ call = NoCall
    /\ ret = NoReturn
    /\ prev = NoPrev
    /\ interactions = 0
    /\ io = NoIO

\* A Generate Quiz click that keeps the answers, the results and the submitted
\* flag of the quiz before
GenerateClick_NoDiscard(topic, question_type, num_questions) ==
    /\ pc = "idle"
    /\ questions' = ResetManager.questions
    /\ gen' = [question_type |-> question_type, topic |-> topic,
               num_questions |-> num_questions, i |-> 0,
               calls |-> 0, invocations |-> 0, returned |-> <<>>]
    /\ call' = NoCall
    /\ ret' = NoReturn
    /\ prev' = Snapshot
    /\ widget' = <<>>
    /\ interactions' = 0
    /\ pc' = "generating"
    /\ io' = NoSave
    /\ UNCHANGED <<quiz_generated, user_answers, results, quiz_submitted>>

\* The Generate Quiz button: quiz_submitted is cleared and generate_questions
\* resets the three lists, then enters its loop. The widgets of the quiz shown
\* before are gone; prev keeps what the click found (of user_answers, how many).
GenerateClick(topic, question_type, num_questions) ==
    /\ pc = "idle"
    /\ quiz_submitted' = FALSE
    /\ questions' = ResetManager.questions
    /\ user_answers' = ResetManager.user_answers
    /\ results' = ResetManager.results
    /\ gen' = [question_type |-> question_type, topic |-> topic,
               num_questions |-> num_questions, i |-> 0,
               calls |-> 0, invocations |-> 0, returned |-> <<>>]
    /\ call' = NoCall
    /\ ret' = NoReturn
    /\ prev' = Snapshot
    /\ widget' = <<>>
    /\ interactions' = 0
    /\ pc' = "generating"
    /\ io' = NoSave
    /\ UNCHANGED quiz_generated

\* One pass of the retry loop of generate_mcq / generate_fill_blank inside
\* generate_questions: the LLM answers `out`. A returned question is appended
\* and the loop of generate_questions goes on; when it ends, or when the final
\* attempt raises, generate_questions returns into quiz_generated and the
\* script reruns. The widgets of a new quiz start on their defaults.
LLMAttempt(out) ==
    /\ pc = "generating"
    /\ LET r == TryBody(gen.question_type, out)
           n == call.invocations + 1
           v == Append(call.verdicts, r.ok)
       IN IF r.ok
          THEN /\ questions' = Append(questions, QuizItem(gen.question_type, r.value))
               /\ ret' = [status |-> "returned", value |-> r.value, invocations |-> n,
                          verdicts |-> v, out |-> out, error |-> NoError]
               /\ gen' = [gen EXCEPT !.i = @ + 1, !.calls = @ + 1,
                                     !.invocations = @ + 1,
                                     !.returned = Append(@, r.value)]
               /\ call' = NoCall
               /\ IF gen.i + 1 = gen.num_questions
                  THEN /\ quiz_generated' = TRUE
                       /\ widget' = [k \in 1..Len(questions') |->
                                        WidgetDefault(questions'[k])]
                       /\ pc' = "rerun"
                  ELSE UNCHANGED <<quiz_generated, widget, pc>>
          ELSE IF IsFinalAttempt(call.attempt)
          THEN /\ ret' = [status |-> "raised", value |-> <<>>, invocations |-> n,
                          verdicts |-> v, out |-> out,
                          error |-> TerminalError(gen.question_type, r.error)]
               /\ gen' = [gen EXCEPT !.calls = @ + 1, !.invocations = @ + 1]
               /\ call' = NoCall
               /\ quiz_generated' = FALSE
               /\ pc' = "rerun"
               /\ UNCHANGED <<questions, widget>>
          ELSE /\ call' = [attempt |-> call.attempt + 1, invocations |-> n,
                           verdicts |-> v]
               /\ gen' = [gen EXCEPT !.invocations = @ + 1]
               /\ UNCHANGED <<questions, ret, quiz_generated, widget, pc>>
    /\ UNCHANGED <<user_answers, results, quiz_submitted, prev, interactions, io>>

\* st.rerun(): the script runs again with no button pressed; the generator and
\* the other locals of the finished run are gone
Rerun ==
    /\ pc = "rerun"
    /\ user_answers' = RenderQuiz(widget)
    /\ pc' = "idle"
    /\ gen' = NoGen
    /\ ret' = NoReturn
    /\ prev' = NoPrev
    /\ UNCHANGED <<questions, results, quiz_generated, quiz_submitted, widget,
                   call, interactions>>
    /\ io' = NoSave

\* The user changes the answer widget of question i to v: the script runs again
WidgetChange(i, v) ==
    /\ pc = "idle"
    /\ QuizShown
    /\ interactions < MaxInteractions
    /\ i \in 1..Len(questions)
    /\ v \in WidgetChoices(questions[i])
    /\ v # widget[i]
    /\ widget' = [widget EXCEPT ![i] = v]
    /\ user_answers' = RenderQuiz(widget')
    /\ interactions' = interactions + 1
    /\ UNCHANGED <<questions, results, quiz_generated, quiz_submitted, pc, gen,
                   call, ret, prev>>
    /\ io' = NoSave

\* The user changes a sidebar widget while a quiz is shown: the script runs again
SidebarChange ==
    /\ pc = "idle"
    /\ QuizShown
    /\ interactions < MaxInteractions
    /\ user_answers' = RenderQuiz(widget)
    /\ interactions' = interactions + 1
    /\ UNCHANGED <<questions, results, quiz_generated, quiz_submitted, widget, pc,
                   gen, call, ret, prev>>
    /\ io' = NoSave

\* The Submit Quiz button: the quiz is rendered, then evaluated
SubmitClick ==
    /\ pc = "idle"
    /\ QuizShown
    /\ interactions < MaxInteractions
    /\ user_answers' = RenderQuiz(widget)
    /\ results' = evaluate_quiz(questions, user_answers')
    /\ quiz_submitted' = TRUE
    /\ interactions' = interactions + 1
    /\ pc' = "rerun"
    /\ io' = NoSave
    /\ UNCHANGED <<questions, quiz_generated, widget, gen, call, ret, prev>>

\* The Save Results button, shown with the results of a submitted quiz: the
\* quiz is rendered, then the results are saved
SaveClick(ts, write_ok) ==
    /\ pc = "idle"
    /\ quiz_submitted
    /\ results # <<>>
    /\ interactions < MaxInteractions
    /\ user_answers' = RenderQuiz(widget)
    /\ io' = Saved(results, ts, write_ok)
    /\ interactions' = interactions + 1
    /\ UNCHANGED <<questions, results, quiz_generated, quiz_submitted, widget, pc,
                   gen, call, ret, prev>>

\* A quiz session: the script of main() driven by the user and the LLM
Next ==
    \/ \E topic \in SessionTopics, t \in QuestionTypes, n \in 1..MaxQuestions :
          GenerateClick(topic, t, n)
    \/ pc = "generating" /\ \E out \in SessionOutputs(gen.question_type) : LLMAttempt(out)
    \/ Rerun
    \/ \E i \in 1..Len(questions) : \E v \in WidgetChoices(questions[i]) :
          WidgetChange(i, v)
    \/ SidebarChange
    \/ SubmitClick
    \/ \E ts \in Timestamps, write_ok \in BOOLEAN : SaveClick(ts, write_ok)

Spec == Init /\ [][Next]_vars

\* One question generated from an empty session, the LLM answering anything
FirstGenerate(topic, t) == questions = <<>> /\ GenerateClick(topic, t, 1)

NextGen ==
    \/ \E topic \in Topics, t \in QuestionTypes : FirstGenerate(topic, t)
    \/ pc = "generating" /\ \E out \in LLMOutputs(gen.question_type) : LLMAttempt(out)
    \/ Rerun

SpecGen == Init /\ [][NextGen]_vars

-----------------------------------------------------------------------------
(* QuizManager driven directly: attempt_quiz and evaluate_quiz called in any   *)
(* order on a generated quiz, the widgets returning any value they can hold.  *)

\* The quiz items generate_questions can append for one question type
GeneratedItems(t) ==
    {QuizItem(t, TryBody(t, out).value) :
        out \in {o \in SessionOutputs(t) : TryBody(t, o).ok}}

\* The question lists generate_questions can leave behind
GeneratedQuizzes ==
    UNION {[1..n -> GeneratedItems(t)] : n \in 0..MaxQuestions, t \in QuestionTypes}

InitEval ==
    /\ questions \in GeneratedQuizzes
    /\ user_answers = <<>>
    /\ results = <<>>
    /\ quiz_generated = (questions # <<>>)
    /\ quiz_submitted = FALSE
    /\ widget = <<>>
    /\ pc = "idle"
    /\ gen = NoGen
    /\ call = NoCall
    /\ ret = NoReturn
    /\ prev = NoPrev
    /\ interactions = 0
    /\ io = NoIO

\* The widget values one call of attempt_quiz can read
WidgetValues ==
    {w \in [1..Len(questions) ->
                UNION {WidgetChoices(questions[i]) : i \in 1..Len(questions)}] :
        \A i \in 1..Len(questions) : w[i] \in WidgetChoices(questions[i])}

CallAttemptQuiz(values) ==
    /\ Len(user_answers) + Len(questions) <= MaxAnswers
    /\ user_answers' = attempt_quiz(user_answers, values)
    /\ pc' = "idle"
    /\ prev' = NoPrev
    /\ io' = NoSave
    /\ UNCHANGED <<questions, results, quiz_generated, quiz_submitted, widget,
                   gen, call, ret, interactions>>

\* An evaluation that forgets to empty the results list first
CallEvaluateQuiz_Appending ==
    /\ results' = results \o evaluate_quiz(questions, user_answers)
    /\ pc' = IF pc \in {"evaluated", "reevaluated"} THEN "reevaluated" ELSE "evaluated"
    /\ prev' = Snapshot
    /\ io' = NoSave
    /\ UNCHANGED <<questions, user_answers, quiz_generated, quiz_submitted, widget,
                   gen, call, ret, interactions>>

\* evaluate_quiz; pc tells a first evaluation from a repeated one
CallEvaluateQuiz ==
    /\ results' = evaluate_quiz(questions, user_answers)
    /\ pc' = IF pc \in {"evaluated", "reevaluated"} THEN "reevaluated" ELSE "evaluated"
    /\ prev' = Snapshot
    /\ io' = NoSave
    /\ UNCHANGED <<questions, user_answers, quiz_generated, quiz_submitted, widget,
                   gen, call, ret, interactions>>

CallSaveToCsv(ts, write_ok) ==
    /\ io' = Saved(results, ts, write_ok)
    /\ pc' = "saved"
    /\ prev' = Snapshot
    /\ UNCHANGED <<questions, user_answers, results, quiz_generated, quiz_submitted,
                   widget, gen, call, ret, interactions>>

NextEval ==
    \/ \E values \in WidgetValues : CallAttemptQuiz(values)
    \/ CallEvaluateQuiz
    \/ \E ts \in Timestamps, write_ok \in BOOLEAN : CallSaveToCsv(ts, write_ok)

SpecEval == InitEval /\ [][NextEval]_vars

-----------------------------------------------------------------------------
(* Properties of the question generator, checked under SpecGen *)

HasFiveUnderscores(s) ==
    \E i \in 1..(Len(s) - 4) : \A j \in 0..4 : s[i + j] = "_"

HasThreeUnderscores(s) ==
    \E i \in 1..(Len(s) - 2) : \A j \in 0..2 : s[i + j] = "_"

MCQItems == {questions[i] : i \in {k \in 1..Len(questions) : questions[k].type = "MCQ"}}

FillBlankItems ==
    {questions[i] : i \in {k \in 1..Len(questions) : questions[k].type # "MCQ"}}

\* C1: a call of generate_mcq or generate_fill_blank whose attempts all fail
\* makes exactly 3 LLM invocations and then raises; a call whose first valid
\* attempt is attempt k makes exactly k invocations and returns the question
\* of attempt k; a call still running has seen only failed attempts, fewer than 3.
C1_RetryBound ==
    /\ ret.status = "raised" =>
          /\ ret.invocations = 3
          /\ ret.verdicts = <<FALSE, FALSE, FALSE>>
    /\ ret.status = "returned" =>
          /\ ret.invocations \in 1..3
          /\ Len(ret.verdicts) = ret.invocations
          /\ \A j \in 1..Len(ret.verdicts) : ret.verdicts[j] <=> (j = ret.invocations)
          /\ ret.out.kind = "json"
          /\ IF gen.question_type = "Multiple Choice"
             THEN /\ ret.value.options = ret.out.options
                  /\ ret.value.correct_answer = ret.out.correct_answer
             ELSE ret.value.answer = ret.out.answer
          /\ questions[Len(questions)] = QuizItem(gen.question_type, ret.value)
    /\ pc = "generating" =>
          /\ call.invocations = call.attempt
          /\ call.attempt \in 0..2
          /\ call.verdicts = [j \in 1..call.attempt |-> FALSE]

C1_Witness ==
    /\ ret.status = "returned"
    /\ ret.invocations = 2
    /\ ret.verdicts = <<FALSE, TRUE>>

\* C14 as stated: the terminal error names the kind of question, the topic, the
\* attempt count and the cause of the last failure.
C14_ErrorNamesTopic ==
    ret.status = "raised" =>
        /\ KindName(gen.question_type) \in Range(ret.error)
        /\ gen.topic \in Range(ret.error)
        /\ ToString(max_attempts) \in Range(ret.error)
        /\ TryBody(gen.question_type, ret.out).error \in Range(ret.error)

\* C14 (amended): the terminal error raised when the final attempt fails names
\* the kind of question, the attempt count 3 and the cause of that last
\* failure, in this order; the topic is not part of it.
C14_ErrorNamesKindCountCause ==
    ret.status = "raised" =>
        /\ ~TryBody(gen.question_type, ret.out).ok
        /\ ret.error = <<"Failed to generate valid ", KindName(gen.question_type),
                         " after ", "3", " attempts: ",
                         TryBody(gen.question_type, ret.out).error>>
        /\ gen.topic \notin Range(ret.error)

C14_Witness ==
    /\ ret.status = "raised"
    /\ gen.topic = "Geography"
    /\ gen.question_type = "Multiple Choice"
    /\ ret.error[6] = "Correct answer not in options"
    /\ ret.verdicts = <<FALSE, FALSE, FALSE>>

\* C2: every question returned by generate_mcq has exactly 4 options, a
\* correct_answer that is one of them, and a non-empty question text.
C2_MCQValid ==
    \A q \in MCQItems \cup (IF ret.status = "returned" /\ gen.question_type = "Multiple Choice"
                            THEN {ret.value} ELSE {}) :
        /\ Len(q.options) = 4
        /\ \E i \in 1..Len(q.options) : q.options[i] = q.correct_answer
        /\ Len(q.question) > 0

C2_Witness ==
    /\ ret.status = "returned"
    /\ gen.question_type = "Multiple Choice"
    /\ ret.invocations = 3
    /\ ret.out.question.form = "dict"

\* C3: every question returned by generate_fill_blank contains the blank marker
\* "_____" in its question text and has a non-empty answer.
C3_FillBlankValid ==
    /\ \A q \in FillBlankItems :
          HasFiveUnderscores(q.question) /\ Len(q.correct_answer) > 0
    /\ (ret.status = "returned" /\ gen.question_type = "Fill in the Blank") =>
          HasFiveUnderscores(ret.value.question) /\ Len(ret.value.answer) > 0

C3_Witness ==
    /\ ret.status = "returned"
    /\ gen.question_type = "Fill in the Blank"
    /\ ~HasFiveUnderscores(clean_question(ret.out.question))
    /\ FillBlankItems # {}

\* The question text generate_fill_blank parsed on its last attempt
ParsedText == clean_question(ret.out.question)

\* A fill-in-the-blank call has returned a text that needed the marker repair
Repaired ==
    /\ ret.status = "returned"
    /\ gen.question_type = "Fill in the Blank"
    /\ ~HasFiveUnderscores(ParsedText)
    /\ HasThreeUnderscores(ParsedText)

\* s with two more underscores at the head of every run of three or more underscores
RECURSIVE WidenRuns(_, _)
WidenRuns(s, i) ==
    IF i > Len(s) THEN <<>>
    ELSE LET head == /\ i + 2 <= Len(s)
                     /\ \A j \in 0..2 : s[i + j] = "_"
                     /\ (i = 1 \/ s[i - 1] # "_")
         IN (IF head THEN <<"_", "_", s[i]>> ELSE <<s[i]>>) \o WidenRuns(s, i + 1)

\* C8 as stated: only the first occurrence of "___" is replaced, every other
\* character (a later "___" included) is left as it was, and the marker check passes.
C8_FirstOccurrenceOnly ==
    Repaired =>
        /\ ret.value.question = ReplaceFirst(ParsedText, WeakMarker, BlankMarker)
        /\ HasFiveUnderscores(ret.value.question)

\* C8 (amended): a parsed text that lacks "_____" but contains "___" is rewritten
\* by replacing every occurrence of "___" (each run of three or four
\* underscores) with "_____", every other character unchanged, and the
\* rewritten text passes the marker check.
C8_EveryOccurrence ==
    Repaired =>
        /\ ret.value.question = WidenRuns(ParsedText, 1)
        /\ HasFiveUnderscores(ret.value.question)

C8_Witness ==
    /\ Repaired
    /\ ParsedText = <<"_", "_", "_", "a", "_", "_", "_">>
    /\ ret.value.question # ReplaceFirst(ParsedText, WeakMarker, BlankMarker)

HasRepeatedOption(options) ==
    \E i, j \in 1..Len(options) : i < j /\ options[i] = options[j]

\* C9 as stated: every returned MCQ has 4 pairwise distinct options.
C9_OptionsDistinct ==
    \A q \in MCQItems : Len(q.options) = 4 /\ ~HasRepeatedOption(q.options)

\* C9 (amended): every question returned by generate_mcq has exactly 4 options,
\* which need not be distinct: a candidate with a repeated option is returned
\* when its question and correct answer are non-empty, it has 4 options and the
\* correct answer is among them, and is rejected only when one of these fails.
C9_RepeatedOptionsAccepted ==
    (/\ ret.status \in {"returned", "raised"}
     /\ gen.question_type = "Multiple Choice"
     /\ ret.out.kind = "json"
     /\ HasRepeatedOption(ret.out.options)) =>
        /\ ret.status = "returned" <=>
              /\ Len(clean_question(ret.out.question)) > 0
              /\ Len(ret.out.correct_answer) > 0
              /\ Len(ret.out.options) = 4
              /\ \E i \in 1..Len(ret.out.options) :
                    ret.out.options[i] = ret.out.correct_answer
        /\ ret.status = "returned" =>
              /\ ret.value.options = ret.out.options
              /\ Len(questions[Len(questions)].options) = 4

C9_Witness ==
    /\ ret.status = "returned"
    /\ gen.question_type = "Multiple Choice"
    /\ HasRepeatedOption(ret.value.options)
    /\ questions # <<>>

\* The validity invariant of a multiple-choice question as the specification
\* words it
InvariantValid(p) ==
    /\ Len(p.question) > 0
    /\ Len(p.options) = 4
    /\ \E i \in 1..Len(p.options) : p.options[i] = p.correct_answer

\* generate_mcq has returned or raised on an attempt whose output was parsed
MCQDecided ==
    /\ ret.status \in {"returned", "raised"}
    /\ gen.question_type = "Multiple Choice"
    /\ ret.out.kind = "json"

\* C16 as stated: a parsed candidate with a non-empty question, exactly 4
\* options and its correct_answer among them is accepted and returned.
C16_InvariantValidAccepted ==
    (MCQDecided /\ InvariantValid(ParseMCQ(ret.out))) =>
        /\ ret.status = "returned"
        /\ ret.value = ParseMCQ(ret.out)

\* C16 (amended): a parsed candidate with a non-empty question, exactly 4
\* options, and a non-empty correct_answer that is among them is accepted and
\* returned at once, no further attempt being made; a candidate whose
\* correct_answer is the empty string is rejected as "Invalid question format"
\* even when the empty string is one of its 4 options.
C16_NonEmptyAnswerAccepted ==
    MCQDecided =>
        LET p == ParseMCQ(ret.out) IN
        /\ (InvariantValid(p) /\ Len(p.correct_answer) > 0) =>
              /\ ret.status = "returned"
              /\ ret.value = p
              /\ ret.verdicts[ret.invocations] = TRUE
              /\ gen.invocations = ret.invocations
              /\ call = NoCall
        /\ (InvariantValid(p) /\ Len(p.correct_answer) = 0) =>
              /\ ret.status = "raised"
              /\ ret.error[6] = "Invalid question format"

\* Accepted on the first attempt, the correct answer being the last of four
\* options of which another is the empty string
C16_Witness ==
    /\ MCQDecided
    /\ ret.status = "returned"
    /\ ret.invocations = 1
    /\ ret.value.correct_answer = ret.value.options[4]
    /\ ret.value.correct_answer # ret.value.options[1]
    /\ ret.value.options[2] = <<>>

-----------------------------------------------------------------------------
(* Properties of the quiz session, checked under Spec *)

\* The script has just evaluated a submitted quiz
JustSubmitted == pc = "rerun" /\ quiz_submitted

\* generate_questions has just returned False
JustFailed == pc = "rerun" /\ ret.status = "raised"

\* C4: after the user has set the answers and submitted, result i records the
\* answer the user had entered at submit time and is_correct is computed from
\* it, so the score counts the questions answered correctly at submit time.
C4_SubmittedAnswersRecorded ==
    JustSubmitted =>
        /\ Len(results) = Len(questions)
        /\ \A i \in 1..Len(results) :
              /\ results[i].user_answer = widget[i]
              /\ results[i].is_correct =
                    (IF questions[i].type = "MCQ"
                     THEN widget[i] = questions[i].correct_answer
                     ELSE Lower(Strip(widget[i])) = Lower(Strip(questions[i].correct_answer)))
        /\ Cardinality({i \in 1..Len(results) : results[i].is_correct})
              = Cardinality({i \in 1..Len(questions) :
                                questions[i].type = "MCQ"
                                /\ widget[i] = questions[i].correct_answer})
                + Cardinality({i \in 1..Len(questions) :
                                questions[i].type # "MCQ"
                                /\ Lower(Strip(widget[i]))
                                     = Lower(Strip(questions[i].correct_answer))})

\* C5: whenever evaluate_quiz runs the manager holds exactly one answer per
\* question: len(user_answers) == len(questions).
C5_OneAnswerPerQuestion ==
    JustSubmitted => Len(user_answers) = Len(questions)

\* C6 as stated: once generate_questions has failed the manager holds none of
\* the questions of the batch, and no quiz is rendered.
C6_BatchDiscarded ==
    (pc # "generating" /\ ~quiz_generated) =>
        /\ questions = <<>>
        /\ user_answers = <<>>

\* C6 (amended): if generate_questions fails terminally on question k+1 after
\* k >= 1 questions of the batch were generated, those k questions stay in the
\* manager's questions list, but quiz_generated is false: no quiz is rendered,
\* no answer is collected and there are no results.
C6_PartialBatchHidden ==
    /\ (pc # "generating" /\ ~quiz_generated) =>
          /\ ~QuizShown
          /\ user_answers = <<>>
          /\ results = <<>>
          /\ widget = <<>>
    /\ JustFailed =>
          /\ ~quiz_generated
          /\ Len(questions) = gen.i
          /\ gen.i < gen.num_questions
          /\ \A i \in 1..Len(questions) :
                questions[i].type =
                    (IF gen.question_type = "Multiple Choice"
                     THEN "MCQ" ELSE "Fill in the Blank")

C6_Witness ==
    /\ pc = "idle"
    /\ ~quiz_generated
    /\ Len(questions) >= 1
    /\ user_answers = <<>>

\* C7 as stated: a generate request that fails terminally leaves the questions,
\* user answers, results and submitted flag of the previous quiz as they were.
C7_PriorStateUntouched ==
    (JustFailed /\ prev.questions # <<>>) =>
        /\ questions = prev.questions
        /\ Len(user_answers) = prev.answers
        /\ results = prev.results
        /\ quiz_submitted = prev.quiz_submitted

\* C7 (amended): a generate request that fails terminally does not preserve the
\* prior session state: the previous quiz's answers and results were reset and
\* the submitted flag cleared when the request started, the questions list
\* holds only what the failed batch produced, and quiz_generated is false.
C7_PriorStateDiscarded ==
    JustFailed =>
        /\ user_answers = <<>>
        /\ results = <<>>
        /\ quiz_submitted = FALSE
        /\ quiz_generated = FALSE
        /\ Len(questions) = gen.i
        /\ Len(questions) < gen.num_questions

C7_Witness ==
    /\ JustFailed
    /\ prev.questions # <<>>
    /\ prev.quiz_submitted
    /\ prev.results # <<>>
    /\ prev.answers > 0

ResultsShown == quiz_submitted /\ results # <<>>

\* C13: a generate request empties the answers and the results and clears the
\* submitted flag before the first question is requested, so whenever results
\* are shown there is one per question of the quiz now held, result i computed
\* from question i of that quiz.
C13_ResultsFromCurrentQuiz ==
    /\ pc = "generating" =>
          /\ user_answers = <<>>
          /\ results = <<>>
          /\ ~quiz_submitted
    /\ ResultsShown =>
          /\ Len(results) = Len(questions)
          /\ \A i \in 1..Len(results) :
                /\ results[i].question_number = i
                /\ results[i].question = questions[i].question
                /\ results[i].question_type = questions[i].type
                /\ results[i].correct_answer = questions[i].correct_answer

\* The results of a quiz submitted as the first interaction after its
\* generation, while the file saved from the results of the quiz before exists
C13_Witness ==
    /\ JustSubmitted
    /\ ResultsShown
    /\ interactions = 1
    /\ io.files # {}

\* generate_questions has just returned, True or False
BatchEnded == pc = "rerun" /\ ret.status # "none"

\* C17: generate_questions(N) calls the orchestrator once per question, one
\* call after the other. It returns True iff it ends holding exactly N
\* questions, in the order they were generated, after exactly N orchestrator
\* calls; the first terminal failure ends the batch with False and no further
\* call; the batch never makes more than 3 * N LLM invocations.
C17_SequentialBatch ==
    /\ pc = "generating" =>
          /\ gen.calls = Len(questions)
          /\ gen.calls < gen.num_questions
    /\ BatchEnded =>
          /\ quiz_generated <=>
                (Len(questions) = gen.num_questions /\ gen.calls = gen.num_questions)
          /\ questions = [k \in 1..Len(gen.returned) |->
                             QuizItem(gen.question_type, gen.returned[k])]
          /\ ret.status = "returned" => quiz_generated
          /\ ret.status = "raised" =>
                /\ ~quiz_generated
                /\ gen.calls = Len(questions) + 1
                /\ gen.calls <= gen.num_questions
    /\ gen.invocations <= 3 * gen.num_questions

\* Two different questions generated with every attempt used: each call
\* succeeded on its third LLM invocation
C17_Witness ==
    /\ BatchEnded
    /\ quiz_generated
    /\ gen.num_questions = 2
    /\ gen.calls = 2
    /\ gen.invocations = 6
    /\ questions[1] # questions[2]

-----------------------------------------------------------------------------
(* Properties of evaluate_quiz, checked under SpecEval *)

\* s without its leading and trailing whitespace
TrimmedCore(s) ==
    LET idx == {i \in 1..Len(s) : s[i] \notin {" ", "\t", "\n"}}
    IN IF idx = {} THEN <<>>
       ELSE SubSeq(s, CHOOSE i \in idx : \A j \in idx : i <= j,
                      CHOOSE i \in idx : \A j \in idx : i >= j)

EqualIgnoringCase(a, b) ==
    /\ Len(a) = Len(b)
    /\ \A i \in 1..Len(a) : LowerChar(a[i]) = LowerChar(b[i])

\* C10: is_correct of an MCQ result is true iff the user answer equals the
\* correct answer exactly; is_correct of a fill-in-the-blank result is true iff
\* the two are equal after trimming surrounding whitespace and ignoring case.
C10_IsCorrect ==
    \A i \in 1..Len(results) :
        LET r == results[i] IN
        /\ r.user_answer = user_answers[i]
        /\ r.correct_answer = questions[i].correct_answer
        /\ r.question_type = questions[i].type
        /\ r.is_correct <=>
              IF r.question_type = "MCQ"
              THEN r.user_answer = r.correct_answer
              ELSE EqualIgnoringCase(TrimmedCore(r.user_answer),
                                     TrimmedCore(r.correct_answer))

C10_Witness ==
    /\ Len(results) = 2
    /\ results[1].question_type = "Fill in the Blank"
    /\ results[1].user_answer = <<" ", "P", " ">>
    /\ results[1].correct_answer = <<"P">>
    /\ results[1].is_correct
    /\ results[2].user_answer = <<"P", "s">>
    /\ ~results[2].is_correct

JustEvaluated == pc \in {"evaluated", "reevaluated"}

\* C11: whatever the two counts are, evaluate_quiz completes and leaves exactly
\* min(len(questions), len(user_answers)) results, result i numbered i and
\* pairing questions[i] with user_answers[i].
C11_MinLengthPrefix ==
    JustEvaluated =>
        /\ Len(results) = Min(Len(questions), Len(user_answers))
        /\ \A i \in 1..Len(results) :
              /\ results[i].question_number = i
              /\ results[i].question = questions[i].question
              /\ results[i].user_answer = user_answers[i]

\* More answers than questions, and a question whose answers differ
C11_Witness ==
    /\ JustEvaluated
    /\ questions # <<>>
    /\ Len(user_answers) > Len(questions)
    /\ Len(results) = Len(questions)
    /\ user_answers[Len(questions) + 1] # user_answers[1]

\* C12: a second evaluate_quiz on the same questions and answers leaves the
\* results of the first, record for record, and the same score.
C12_ReevaluationIdentical ==
    pc = "reevaluated" =>
        /\ results = prev.results
        /\ Score(results) = Score(prev.results)

C12_Witness ==
    /\ pc = "reevaluated"
    /\ Len(results) = 2
    /\ results[1].is_correct
    /\ ~results[2].is_correct

\* C15: save_to_csv called while the manager holds no results returns None,
\* shows the warning, writes no file, and leaves questions, user_answers and
\* results as they were.
C15_EmptySaveWarns ==
    [][(pc' = "saved" /\ results = <<>>) =>
           /\ io'.returned = "None"
           /\ io'.message = "warning"
           /\ ~io'.wrote
           /\ io'.files = io.files
           /\ UNCHANGED <<questions, user_answers, results>>]_vars

\* Saved with answers collected but nothing evaluated yet
C15_Witness ==
    /\ pc = "saved"
    /\ prev.results = <<>>
    /\ io.message = "warning"
    /\ questions # <<>>
    /\ user_answers # <<>>

=============================================================================
